---- MODULE Spec2Model ----
(***************************************************************************)
(* Model of reapy's distant-API provisioning (reapy/config.py) and of the  *)
(* role-routed program execution (reapy/tools/dist_program.py).            *)
(*                                                                         *)
(* Spec     : the persisted REAPER .ini [reaper] section under             *)
(*            create_new_web_interface / delete_web_interface /            *)
(*            enable_dist_api / disable_dist_api.                          *)
(* SpecNet  : Program.run in Inside and Outside processes, the process-    *)
(*            wide CLIENT and the host-side server.                        *)
(***************************************************************************)
EXTENDS Integers, Sequences, FiniteSets, TLC

VARIABLES
    role,        \* reapy.is_inside_reaper(): "Inside" or "Outside", per process
    ini,         \* persisted [reaper] section of the .ini file: key -> value
    reascripts,  \* ReaScripts registered in the Actions list
    extState,    \* persisted ext state ("reapy", "activate_reapy_server")
    message,     \* text of the last message box shown
    raised,      \* exception raised by the last call ("none" when it returned)
    trace,       \* calls made so far: <<[op, port, before, raised], ...>>
    loaded,      \* reapy.tools.dist_program has been imported
    client,      \* module global CLIENT: <<>> (unbound) or <<[port |-> p]>>
    discoveries, \* discovery round trips made (get_reapy_server_port)
    pc,          \* per thread: "idle", "send" (in run_program), "recv"
    cur,         \* per thread: index in calls of the call it is in
    calls,       \* calls started: <<[thread, via, unit, input], ...>>
    done,        \* calls ended: [call, got, outputs]
    sockOut,     \* requests sent on the Connection, not yet read by the server
    sockIn,      \* responses sent by the server, not yet read by the client
    hostExec,    \* the unit the host is executing: <<>> or <<[call, innerDone]>>
    netRequests, \* execution requests sent by the client
    hostHops,    \* network hops attempted from inside the host
    directNested \* wrapped operations run directly from a wrapped region

cfgVars == <<role, ini, reascripts, extState, message, raised, trace>>
netVars == <<loaded, client, discoveries, pc, cur, calls, done, sockOut,
             sockIn, hostExec, netRequests, hostHops, directNested>>
vars == <<cfgVars, netVars>>

(***************************************************************************)
(* Program constants and bounds.                                           *)
(***************************************************************************)
REAPY_SERVER_PORT == 2306
WEB_INTERFACE_PORT == 2307

\* Largest csurf_cnt of an initial configuration.
MaxInit == 2
\* Number of calls made in one behaviour.
MaxOps == 3
\* Number of Program.run / wrapped calls made in one behaviour of SpecNet.
MaxCalls == 3
\* Threads of the process that share the module global CLIENT.
Threads == {1, 2}

\* A port some other Web interface of the user listens to.
Ports == {WEB_INTERFACE_PORT, 8080}

Roles == {"Inside", "Outside"}

(***************************************************************************)
(* Strings: "csurf_{}".format(i), "HTTP 0 {} ...".format(port), str, int.  *)
(***************************************************************************)
\* str(n)
Str(n) == ToString(n)

\* int(s) for the decimal strings a counter can hold in the model
IntRange == (0 - 1 - MaxOps) .. (MaxInit + MaxOps + 1)
Int_(s) == CHOOSE n \in IntRange : Str(n) = s

\* "csurf_{}".format(i)
Key(i) == "csurf_" \o Str(i)

\* "HTTP 0 {} '' 'index.html' 0 ''".format(port)
EntryValue(port) == "HTTP 0 " \o Str(port) \o " '' 'index.html' 0 ''"

(***************************************************************************)
(* SectionProxy item assignment and deletion on the in-memory Config.      *)
(***************************************************************************)
\* config["reaper"][k] = v
SetItem(c, k, v) == [x \in (DOMAIN c) \cup {k} |-> IF x = k THEN v ELSE c[x]]

\* del config["reaper"][k]   (the caller checks k \in DOMAIN c: KeyError)
DelItem(c, k) == [x \in (DOMAIN c) \ {k} |-> c[x]]

(***************************************************************************)
(* create_new_web_interface(port): the configuration it writes.            *)
(***************************************************************************)
create_new_web_interface_offby1(c, port) ==
    LET csurf_count == Int_(c["csurf_cnt"]) + 1
        c1 == SetItem(c, "csurf_cnt", Str(csurf_count))
        key == Key(csurf_count)
    IN  SetItem(c1, key, EntryValue(port))

create_new_web_interface_wrongport(c, port) ==
    LET csurf_count == Int_(c["csurf_cnt"]) + 1
        c1 == SetItem(c, "csurf_cnt", Str(csurf_count))
        key == Key(csurf_count - 1)
    IN  SetItem(c1, key, EntryValue(REAPY_SERVER_PORT))

create_new_web_interface(c, port) ==
    LET csurf_count == Int_(c["csurf_cnt"]) + 1
        c1 == SetItem(c, "csurf_cnt", Str(csurf_count))
        key == Key(csurf_count - 1)
    IN  SetItem(c1, key, EntryValue(port))

(***************************************************************************)
(* delete_web_interface(port): [raised, cfg], cfg the persisted            *)
(* configuration after the call.  When the key is absent, del raises       *)
(* KeyError before config.write(): the file keeps its contents.            *)
(***************************************************************************)
delete_web_interface_keepcount(c, port) ==
    LET csurf_count == Int_(c["csurf_cnt"]) - 1
        key == Key(csurf_count)
    IN  IF key \in DOMAIN c
        THEN [raised |-> "none", cfg |-> DelItem(c, key)]
        ELSE [raised |-> "KeyError", cfg |-> c]

delete_web_interface(c, port) ==
    LET csurf_count == Int_(c["csurf_cnt"]) - 1
        c1 == SetItem(c, "csurf_cnt", Str(csurf_count))
        key == Key(csurf_count)
    IN  IF key \in DOMAIN c1
        THEN [raised |-> "none", cfg |-> DelItem(c1, key)]
        ELSE [raised |-> "KeyError", cfg |-> c]

\* os.path.abspath(activate_reapy_server.__file__)
get_activate_reapy_server_path == "reapy/reascripts/activate_reapy_server.py"

(***************************************************************************)
(* Initial states: a consistent persisted configuration, nothing           *)
(* registered yet, in a process of either role.                            *)
(***************************************************************************)
InitialConfig(n, vals) ==
    [k \in {"csurf_cnt"} \cup {Key(i) : i \in 0 .. (n - 1)} |->
        IF k = "csurf_cnt" THEN Str(n)
        ELSE vals[CHOOSE i \in 0 .. (n - 1) : Key(i) = k]]

InitialConfigs ==
    UNION {{InitialConfig(n, vals) :
                vals \in [0 .. (n - 1) -> {EntryValue(p) : p \in Ports}]} :
           n \in 0 .. MaxInit}

Logged(op, port, err) ==
    Append(trace, [op |-> op, port |-> port, before |-> ini, raised |-> err])

\* dist_program not imported, nothing sent.
NetInit ==
    /\ loaded = FALSE
    /\ client = <<>>
    /\ discoveries = 0
    /\ pc = [t \in Threads |-> "idle"]
    /\ cur = [t \in Threads |-> 0]
    /\ calls = <<>>
    /\ done = {}
    /\ sockOut = <<>>
    /\ sockIn = <<>>
    /\ hostExec = <<>>
    /\ netRequests = 0
    /\ hostHops = 0
    /\ directNested = 0

Init ==
    /\ role \in Roles
    /\ ini \in InitialConfigs
    /\ reascripts = {}
    /\ extState = "none"
    /\ message = "none"
    /\ raised = "none"
    /\ trace = <<>>
    /\ NetInit

(***************************************************************************)
(* Actions: one per function of config.py.                                 *)
(***************************************************************************)
CreateNewWebInterface(port) ==
    /\ Len(trace) < MaxOps
    /\ ini' = create_new_web_interface(ini, port)
    /\ raised' = "none"
    /\ trace' = Logged("create", port, "none")
    /\ UNCHANGED <<role, reascripts, extState, message>>
    /\ UNCHANGED netVars

DeleteWebInterface(port) ==
    /\ Len(trace) < MaxOps
    /\ LET r == delete_web_interface(ini, port)
       IN  /\ ini' = r.cfg
           /\ raised' = r.raised
           /\ trace' = Logged("delete", port, r.raised)
    /\ UNCHANGED <<role, reascripts, extState, message>>
    /\ UNCHANGED netVars

\* enable_dist_api testing the role only after the configuration is written.
EnableDistApi_latecheck ==
    /\ Len(trace) < MaxOps
    /\ ini' = create_new_web_interface(ini, WEB_INTERFACE_PORT)
    /\ IF role # "Inside"
       THEN /\ raised' = "OutsideREAPERError"
            /\ trace' = Logged("enable", WEB_INTERFACE_PORT, "OutsideREAPERError")
            /\ UNCHANGED <<reascripts, extState, message>>
       ELSE /\ reascripts' = reascripts \cup {get_activate_reapy_server_path}
            /\ extState' = "activate_reapy_server"
            /\ message' = "reapy successfully enabled!"
            /\ raised' = "none"
            /\ trace' = Logged("enable", WEB_INTERFACE_PORT, "none")
    /\ UNCHANGED role
    /\ UNCHANGED netVars

EnableDistApi ==
    /\ Len(trace) < MaxOps
    /\ IF role # "Inside"
       THEN /\ raised' = "OutsideREAPERError"
            /\ trace' = Logged("enable", WEB_INTERFACE_PORT, "OutsideREAPERError")
            /\ UNCHANGED <<ini, reascripts, extState, message>>
       ELSE /\ ini' = create_new_web_interface(ini, WEB_INTERFACE_PORT)
            /\ reascripts' = reascripts \cup {get_activate_reapy_server_path}
            /\ extState' = "activate_reapy_server"
            /\ message' = "reapy successfully enabled!"
            /\ raised' = "none"
            /\ trace' = Logged("enable", WEB_INTERFACE_PORT, "none")
    /\ UNCHANGED role
    /\ UNCHANGED netVars

DisableDistApi ==
    /\ Len(trace) < MaxOps
    /\ IF role # "Inside"
       THEN /\ raised' = "OutsideREAPERError"
            /\ trace' = Logged("disable", WEB_INTERFACE_PORT, "OutsideREAPERError")
            /\ UNCHANGED <<ini, reascripts, message>>
       ELSE LET r == delete_web_interface(ini, WEB_INTERFACE_PORT)
            IN  /\ ini' = r.cfg
                /\ raised' = r.raised
                /\ trace' = Logged("disable", WEB_INTERFACE_PORT, r.raised)
                /\ IF r.raised = "none"
                   THEN /\ reascripts' = reascripts \ {get_activate_reapy_server_path}
                        /\ message' = "reapy will be disabled as soon as you restart REAPER."
                   ELSE UNCHANGED <<reascripts, message>>
    /\ UNCHANGED <<role, extState>>
    /\ UNCHANGED netVars

Next ==
    \/ \E port \in Ports : CreateNewWebInterface(port)
    \/ \E port \in Ports : DeleteWebInterface(port)
    \/ EnableDistApi
    \/ DisableDistApi

Spec == Init /\ [][Next]_vars

(***************************************************************************)
(* Vocabulary of the provisioning claims.                                  *)
(***************************************************************************)
\* The csurf_<i> entries present in a configuration.
CsurfKeys(c) == (DOMAIN c) \ {"csurf_cnt"}

\* Counter = number of entries, and the entries sit at indices 0..counter-1.
Consistent(c) ==
    /\ "csurf_cnt" \in DOMAIN c
    /\ c["csurf_cnt"] \in {Str(n) : n \in 0 .. (MaxInit + MaxOps)}
    /\ CsurfKeys(c) = {Key(i) : i \in 0 .. (Int_(c["csurf_cnt"]) - 1)}
    /\ Cardinality(CsurfKeys(c)) = Int_(c["csurf_cnt"])

\* A Web interface entry listening to `port` is registered.
HasEntryFor(c, port) == \E k \in CsurfKeys(c) : c[k] = EntryValue(port)

Called == Len(trace) > 0
Last == trace[Len(trace)]
\* The last call got past its role check (create/delete have none).
LastRan == Called /\ Last.raised # "OutsideREAPERError"

\* C1: from a consistent persisted configuration, after any sequence of
\* enable/disable (create/delete) calls the persisted csurf_cnt equals the
\* number of csurf_<i> entries, which occupy exactly indices 0..csurf_cnt-1.
C1_CounterInvariant == Consistent(ini)

C1_Witness ==
    /\ \E i, j \in DOMAIN trace :
          /\ i < j
          /\ trace[i].op = "enable" /\ trace[i].raised = "none"
          /\ trace[j].op = "disable" /\ trace[j].raised = "none"
    /\ Int_(trace[1].before["csurf_cnt"]) >= 1
    /\ Len(trace) = MaxOps

\* C2: enable_dist_api called when an entry for the control port is already
\* registered leaves the persisted entry set and csurf_cnt unchanged.
C2_EnableIdempotent ==
    (LastRan /\ Last.op = "enable"
        /\ HasEntryFor(Last.before, WEB_INTERFACE_PORT))
    => ini = Last.before

\* C3: disable_dist_api called inside the host when no entry for the control
\* port is registered (csurf_cnt = 0 included) raises no error and leaves the
\* persisted entry set and csurf_cnt unchanged.
C3_DisableAbsentNoOp ==
    (LastRan /\ Last.op = "disable"
        /\ ~HasEntryFor(Last.before, WEB_INTERFACE_PORT))
    => (raised = "none" /\ ini = Last.before)

\* C4: from any consistent configuration, enable_dist_api immediately
\* followed by disable_dist_api restores exactly the prior csurf_cnt and
\* exactly the prior csurf_<i> entries with their prior values.
C4_EnableDisableRestores ==
    (/\ Len(trace) >= 2
     /\ trace[Len(trace) - 1].op = "enable"
     /\ trace[Len(trace) - 1].raised = "none"
     /\ Last.op = "disable")
    => (raised = "none" /\ ini = trace[Len(trace) - 1].before)

C4_Witness ==
    /\ Len(trace) >= 2
    /\ trace[Len(trace) - 1].op = "enable"
    /\ trace[Len(trace) - 1].raised = "none"
    /\ Last.op = "disable"
    /\ Int_(trace[Len(trace) - 1].before["csurf_cnt"]) >= 2
    /\ HasEntryFor(ini, 8080)

\* C5: with counter n before the call, create_new_web_interface(port) (the
\* control port when called from enable_dist_api) writes csurf_n carrying
\* the port, sets the counter to n+1 and leaves csurf_0..csurf_(n-1) as
\* they were.
C5_CreateAppendsAtCounter ==
    (LastRan /\ Last.op \in {"create", "enable"})
    => LET n == Int_(Last.before["csurf_cnt"])
       IN  /\ ini["csurf_cnt"] = Str(n + 1)
           /\ Key(n) \in DOMAIN ini
           /\ ini[Key(n)] = EntryValue(Last.port)
           /\ DOMAIN ini = (DOMAIN Last.before) \cup {Key(n)}
           /\ \A i \in 0 .. (n - 1) : ini[Key(i)] = Last.before[Key(i)]

C5_Witness ==
    /\ LastRan /\ Last.op = "enable"
    /\ Last.before["csurf_cnt"] = "3"
    /\ ini["csurf_cnt"] = "4"
    /\ ini["csurf_3"] = EntryValue(WEB_INTERFACE_PORT)

\* C6: delete_web_interface(port) deletes the entry listening to `port`:
\* afterwards no entry for `port` remains, and every entry registered for
\* another port is still present with its value, whatever the order in
\* which the entries were appended.
C6_DeleteRemovesThatPort ==
    (LastRan /\ Last.op \in {"delete", "disable"})
    => /\ ~HasEntryFor(ini, Last.port)
       /\ \A k \in CsurfKeys(Last.before) :
             Last.before[k] # EntryValue(Last.port)
             => (k \in DOMAIN ini /\ ini[k] = Last.before[k])

(***************************************************************************)
(* Program execution: reapy/tools/dist_program.py, the operations of       *)
(* reapy/core/fx/fx_param.py that run inside REAPER, and the client,       *)
(* server, local executor and dispatcher they call.                        *)
(***************************************************************************)
\* Arguments given to Program.from_function("add")(a, b).
RunInputs == {<<2, 3>>, <<1, 1>>}
\* Names of the parameters of the FX behind an FXParamsList.
ParamNames == <<"Wet", "Dry Gain">>
\* Keys given to FXParamsList.__getitem__.
WrappedInputs == {"Dry Gain", "Nope"}

\* Program.from_function(function_name): the unit it builds.
from_function(function_name) ==
    [code |-> "result = " \o function_name \o "(*args, **kwargs)",
     output |-> "result"]

\* FXParamsList._get_param_index(name): index of the name, or IndexError.
get_param_index(name) ==
    IF \E i \in DOMAIN ParamNames : ParamNames[i] = name
    THEN [raised |-> "none",
          outputs |-> <<(CHOOSE i \in DOMAIN ParamNames : ParamNames[i] = name) - 1>>]
    ELSE [raised |-> "IndexError", outputs |-> <<>>]

\* The inside_reaper region of FXParamsList.__getitem__ for a str key:
\* i = self._get_param_index(i); bounds check; i = i % n_params.
getitem_region(name) ==
    LET r == get_param_index(name)
        n_params == Len(ParamNames)
    IN  IF r.raised # "none" THEN r
        ELSE IF r.outputs[1] >= n_params
             THEN [raised |-> "IndexError", outputs |-> <<>>]
             ELSE [raised |-> "none", outputs |-> <<r.outputs[1] % n_params>>]

\* Local executor (program.Program.run): run the unit's body on the inputs
\* and read back its outputs.
LocalRun(fn, input) ==
    IF from_function(fn) = from_function("add")
    THEN [raised |-> "none", outputs |-> <<input[1] + input[2]>>]
    ELSE getitem_region(input)

\* Dispatcher (reapy.inside_reaper): where a wrapped operation runs when
\* invoked in a process of role r.
inside_reaper_always_network(r) == "network"

inside_reaper(r) == IF r = "Inside" THEN "direct" ELSE "network"

NewCall(t, via, fn, input) ==
    Append(calls, [thread |-> t, via |-> via, fn |-> fn, input |-> input])

Ended(call, got, r) ==
    done \cup {[call |-> call, got |-> got, raised |-> r.raised, outputs |-> r.outputs]}

NameError == [raised |-> "NameError", outputs |-> <<>>]

\* Execution requests sent whose response the client has not read yet.
InFlight == Len(sockOut) + Len(hostExec) + Len(sockIn)

\* State of SpecNet before dist_program is imported: the distant API has
\* been enabled in the persisted configuration.
NetCfgInit ==
    /\ ini = create_new_web_interface([csurf_cnt |-> "0"], WEB_INTERFACE_PORT)
    /\ reascripts = {get_activate_reapy_server_path}
    /\ extState = "activate_reapy_server"
    /\ message = "none"
    /\ raised = "none"
    /\ trace = <<>>

InitNet ==
    /\ role \in Roles
    /\ NetCfgInit
    /\ NetInit

\* Module initialisation creating WEB_INTERFACE and CLIENT in either role.
ImportDistProgram_bothroles ==
    /\ ~loaded
    /\ loaded' = TRUE
    /\ discoveries' = discoveries + 1
    /\ client' = <<[port |-> REAPY_SERVER_PORT]>>
    /\ UNCHANGED <<pc, cur, calls, done, sockOut, sockIn, hostExec,
                   netRequests, hostHops, directNested>>
    /\ UNCHANGED cfgVars

\* Module initialisation of dist_program (lines 1-7).
ImportDistProgram ==
    /\ ~loaded
    /\ loaded' = TRUE
    /\ IF role # "Inside"
       THEN /\ discoveries' = discoveries + 1
            /\ client' = <<[port |-> REAPY_SERVER_PORT]>>
       ELSE UNCHANGED <<discoveries, client>>
    /\ UNCHANGED <<pc, cur, calls, done, sockOut, sockIn, hostExec,
                   netRequests, hostHops, directNested>>
    /\ UNCHANGED cfgVars

\* Program.run rebuilding the connection on every call.
Program_run_rediscover(t, fn, input) ==
    /\ loaded
    /\ pc[t] = "idle"
    /\ Len(calls) < MaxCalls
    /\ calls' = NewCall(t, "run", fn, input)
    /\ IF role = "Inside"
       THEN /\ done' = Ended(Len(calls) + 1, 0, NameError)
            /\ UNCHANGED <<pc, cur, discoveries>>
       ELSE /\ pc' = [pc EXCEPT ![t] = "send"]
            /\ cur' = [cur EXCEPT ![t] = Len(calls) + 1]
            /\ discoveries' = discoveries + 1
            /\ UNCHANGED done
    /\ UNCHANGED <<loaded, client, sockOut, sockIn, hostExec,
                   netRequests, hostHops, directNested>>
    /\ UNCHANGED cfgVars

\* Program.run sending the request and returning without its response.
Program_run_nowait(t, fn, input) ==
    /\ loaded
    /\ pc[t] = "idle"
    /\ Len(calls) < MaxCalls
    /\ calls' = NewCall(t, "run", fn, input)
    /\ IF role = "Inside"
       THEN /\ done' = Ended(Len(calls) + 1, 0, NameError)
            /\ UNCHANGED <<sockOut, netRequests>>
       ELSE /\ sockOut' = Append(sockOut, [call |-> Len(calls) + 1])
            /\ netRequests' = netRequests + 1
            /\ UNCHANGED done
    /\ UNCHANGED <<loaded, client, discoveries, pc, cur, sockIn, hostExec,
                   hostHops, directNested>>
    /\ UNCHANGED cfgVars

\* Program.run (lines 21-25).  Inside, super(DistProgram, self) names a
\* class the module never defines: the call raises NameError.  Outside, the
\* thread enters CLIENT.run_program and stays in it until the call returns.
Program_run(t, fn, input) ==
    /\ loaded
    /\ pc[t] = "idle"
    /\ Len(calls) < MaxCalls
    /\ calls' = NewCall(t, "run", fn, input)
    /\ IF role = "Inside"
       THEN /\ done' = Ended(Len(calls) + 1, 0, NameError)
            /\ UNCHANGED <<pc, cur>>
       ELSE /\ pc' = [pc EXCEPT ![t] = "send"]
            /\ cur' = [cur EXCEPT ![t] = Len(calls) + 1]
            /\ UNCHANGED done
    /\ UNCHANGED <<loaded, client, discoveries, sockOut, sockIn, hostExec,
                   netRequests, hostHops, directNested>>
    /\ UNCHANGED cfgVars

\* FXParamsList.__getitem__ with a str key: the inside_reaper region, which
\* itself calls the wrapped _get_param_index.
WrappedCall(t, input) ==
    /\ loaded
    /\ pc[t] = "idle"
    /\ Len(calls) < MaxCalls
    /\ calls' = NewCall(t, "wrapped", "getitem", input)
    /\ IF inside_reaper(role) = "direct"
       THEN /\ done' = Ended(Len(calls) + 1, 0, LocalRun("getitem", input))
            /\ IF inside_reaper(role) = "direct"
               THEN /\ directNested' = directNested + 1
                    /\ UNCHANGED hostHops
               ELSE /\ hostHops' = hostHops + 1
                    /\ UNCHANGED directNested
            /\ UNCHANGED <<pc, cur>>
       ELSE /\ pc' = [pc EXCEPT ![t] = "send"]
            /\ cur' = [cur EXCEPT ![t] = Len(calls) + 1]
            /\ UNCHANGED <<done, directNested, hostHops>>
    /\ UNCHANGED <<loaded, client, discoveries, sockOut, sockIn, hostExec,
                   netRequests>>
    /\ UNCHANGED cfgVars

\* Client.run_program: send the request (CLIENT is bound only Outside).
ClientSend(t) ==
    /\ pc[t] = "send"
    /\ IF client = <<>>
       THEN /\ done' = Ended(cur[t], 0, NameError)
            /\ pc' = [pc EXCEPT ![t] = "idle"]
            /\ UNCHANGED <<sockOut, netRequests>>
       ELSE /\ sockOut' = Append(sockOut, [call |-> cur[t]])
            /\ netRequests' = netRequests + 1
            /\ pc' = [pc EXCEPT ![t] = "recv"]
            /\ UNCHANGED done
    /\ UNCHANGED <<loaded, client, discoveries, cur, calls, sockIn, hostExec,
                   hostHops, directNested>>
    /\ UNCHANGED cfgVars

\* Server: read the next request once the previous unit has run to its end.
ServerAccept ==
    /\ hostExec = <<>>
    /\ sockOut # <<>>
    /\ hostExec' = <<[call |-> Head(sockOut).call, innerDone |-> FALSE]>>
    /\ sockOut' = Tail(sockOut)
    /\ UNCHANGED <<loaded, client, discoveries, pc, cur, calls, done, sockIn,
                   netRequests, hostHops, directNested>>
    /\ UNCHANGED cfgVars

\* Server, running a wrapped region: its call of the wrapped
\* _get_param_index goes through the dispatcher in the host process.
ServerNested ==
    /\ hostExec # <<>>
    /\ calls[hostExec[1].call].via = "wrapped"
    /\ ~hostExec[1].innerDone
    /\ hostExec' = <<[hostExec[1] EXCEPT !.innerDone = TRUE]>>
    /\ IF inside_reaper("Inside") = "direct"
       THEN /\ directNested' = directNested + 1
            /\ UNCHANGED hostHops
       ELSE /\ hostHops' = hostHops + 1
            /\ UNCHANGED directNested
    /\ UNCHANGED <<loaded, client, discoveries, pc, cur, calls, done, sockOut,
                   sockIn, netRequests>>
    /\ UNCHANGED cfgVars

\* Server: the unit has run; send its outputs back.
ServerRespond ==
    /\ hostExec # <<>>
    /\ calls[hostExec[1].call].via = "wrapped" => hostExec[1].innerDone
    /\ LET c == calls[hostExec[1].call]
           r == LocalRun(c.fn, c.input)
       IN  sockIn' = Append(sockIn, [call |-> hostExec[1].call,
                                     raised |-> r.raised, outputs |-> r.outputs])
    /\ hostExec' = <<>>
    /\ UNCHANGED <<loaded, client, discoveries, pc, cur, calls, done, sockOut,
                   netRequests, hostHops, directNested>>
    /\ UNCHANGED cfgVars

\* Client.run_program: read the next response on the socket and return it.
ClientRecv(t) ==
    /\ pc[t] = "recv"
    /\ sockIn # <<>>
    /\ done' = Ended(cur[t], Head(sockIn).call, Head(sockIn))
    /\ sockIn' = Tail(sockIn)
    /\ pc' = [pc EXCEPT ![t] = "idle"]
    /\ UNCHANGED <<loaded, client, discoveries, cur, calls, sockOut, hostExec,
                   netRequests, hostHops, directNested>>
    /\ UNCHANGED cfgVars

NextNet ==
    \/ ImportDistProgram
    \/ \E t \in Threads, input \in RunInputs : Program_run(t, "add", input)
    \/ \E t \in Threads, input \in WrappedInputs : WrappedCall(t, input)
    \/ \E t \in Threads : ClientSend(t)
    \/ ServerAccept
    \/ ServerNested
    \/ ServerRespond
    \/ \E t \in Threads : ClientRecv(t)

SpecNet == InitNet /\ [][NextNet]_vars

(***************************************************************************)
(* Claims about program execution.                                         *)
(***************************************************************************)
\* Threads that have started a call.
Callers == {calls[i].thread : i \in DOMAIN calls}
\* Threads inside CLIENT.run_program, before / after sending the request.
Sending == {t \in Threads : pc[t] = "send"}
Awaiting == {t \in Threads : pc[t] = "recv"}

\* C7: Program.run routes by role: Inside it executes the unit through the
\* local executor and sends no network request; Outside it issues exactly
\* one execution request per call and returns that request's outputs.
C7_RunRoutesByRole ==
    /\ role = "Inside" => netRequests = 0
    /\ \A d \in done :
          calls[d.call].via = "run"
          => LET c == calls[d.call]
                 r == LocalRun(c.fn, c.input)
             IN  /\ d.raised = r.raised
                 /\ d.outputs = r.outputs
                 /\ role = "Outside" => d.got = d.call

C9_DiscoveryOnce ==
    role = "Outside"
    => /\ discoveries = (IF loaded THEN 1 ELSE 0)
       /\ netRequests = Len(calls) - Cardinality(Sending)
       /\ Cardinality(done) = netRequests - InFlight

C9_Witness ==
    /\ role = "Outside"
    /\ Callers = {1}
    /\ Cardinality(done) = 2
    /\ \A d \in done : d.got = d.call /\ d.raised = "none"
    /\ discoveries = 1
    /\ netRequests = 2

C11_ContextTransparency ==
    Cardinality(Callers) <= 1
    => \A d \in done :
          calls[d.call].via = "run"
          => /\ d.raised = "none"
             /\ Len(d.outputs) = 1
             /\ d.outputs[1] = calls[d.call].input[1] + calls[d.call].input[2]

\* C12: enable_dist_api and disable_dist_api invoked in the Outside role
\* raise OutsideREAPERError before any configuration read-modify-write or
\* script registration: the step leaves the persisted configuration, the
\* registered ReaScripts, the ext state and the message box untouched.
C12_OutsideRaisesFirst ==
    [][(/\ role = "Outside"
        /\ Len(trace') = Len(trace) + 1
        /\ trace'[Len(trace')].op \in {"enable", "disable"})
       => (/\ raised' = "OutsideREAPERError"
           /\ trace'[Len(trace')].raised = "OutsideREAPERError"
           /\ UNCHANGED <<ini, reascripts, extState, message>>)]_vars

C12_Witness ==
    /\ role = "Outside"
    /\ Len(trace) >= 2
    /\ trace[1].op = "enable" /\ trace[1].raised = "OutsideREAPERError"
    /\ Last.op = "disable" /\ raised = "OutsideREAPERError"
    /\ HasEntryFor(ini, WEB_INTERFACE_PORT)
    /\ ini = trace[1].before

\* C13: the role is fixed for the process lifetime, so the role seen when
\* dist_program is initialised is the role every later Program.run sees:
\* whenever Program.run has taken the Outside branch, CLIENT is already
\* bound to a client created from the discovered port, and in the Inside
\* role no WebInterface or Client is ever created.
C13_RoleFixedClientBound ==
    /\ role = "Inside"
       => (client = <<>> /\ discoveries = 0 /\ netRequests = 0)
    /\ \A t \in Threads :
          (pc[t] # "idle" /\ calls[cur[t]].via = "run")
          => /\ role = "Outside"
             /\ loaded
             /\ discoveries = 1
             /\ client = <<[port |-> REAPY_SERVER_PORT]>>
    /\ \A d \in done :
          (calls[d.call].via = "run" /\ d.got # 0) => client # <<>>

C13_Witness ==
    /\ role = "Outside"
    /\ pc[1] = "send"
    /\ calls[cur[1]].via = "run"
    /\ client = <<[port |-> REAPY_SERVER_PORT]>>
    /\ \E d \in done : calls[d.call].via = "run" /\ d.got = d.call

====
